---- MODULE Spec2Model ----
(***************************************************************************)
(* The Auth service of sso (package auth): Login, RegisterNewUser and      *)
(* IsAdmin over the injected UserSaver, UserProvider and AppProvider and   *)
(* the jwt token constructor.                                              *)
(*                                                                         *)
(* Auth holds no mutable field (log, the three collaborators and tokenTTL  *)
(* are set once by New).  Each handler touches the mutable user table in   *)
(* at most one collaborator call (User for Login, SaveUser for             *)
(* RegisterNewUser), and that call is atomic in the table.                 *)
(*                                                                         *)
(* Spec: one caller at a time; each handler is one action, and what the    *)
(* collaborators answer (a backend failure, a cancelled context, a random  *)
(* salt, the clock) is chosen by the environment inside the action.        *)
(*                                                                         *)
(* SpecRegister: concurrent RegisterNewUser calls, each split at its       *)
(* SaveUser call, in every interleaving.                                   *)
(***************************************************************************)
EXTENDS Integers, Sequences, FiniteSets

VARIABLES
    users,        \* the user table behind UserSaver / UserProvider
    last,         \* the call that has just completed: its arguments, the step at which
                  \* its ctx was cancelled, the calls it made, its result, the time
                  \* its token was issued at, the boolean the admin check answered
                  \* and the user table as it was when the call started
    regReturned,  \* per email, what RegisterNewUser was given and returned on success
    reg           \* concurrent RegisterNewUser calls, one per caller: where the call
                  \* stands, its arguments, its hash, the calls it made, its result,
                  \* and how many users were stored when it started

vars == <<users, last, regReturned, reg>>

----------------------------------------------------------------------------
(* Bounds of the model *)

NumCallers == 2
MaxEmails == 2
MaxPasswords == 2
MaxApps == 1
MaxSalt == 1
MaxTime == 1
tokenTTL == 2

Callers == 1..NumCallers
Emails == 1..MaxEmails
Passwords == 1..MaxPasswords
\* the app table holds apps 1..MaxApps; MaxApps + 1 is an appID no app has
AppIDs == 1..(MaxApps + 1)
UserIDs == 1..(MaxEmails + 1)
Salts == 1..MaxSalt
Times == 0..MaxTime

----------------------------------------------------------------------------
(* Errors.  fmt.Errorf("%s: %w", op, err) keeps err in the chain, so       *)
(* errors.Is on the result answers for err.                                *)

ErrInvalidCredentials == "storage.ErrInvalidCredentials"
ErrUserNotFound == "storage.ErrUserNotFound"
ErrUserAlreadyExists == "storage.ErrUserAlreadyExists"
ErrAppNotFound == "storage.ErrAppNotFound"
ErrStorage == "storage failure"
ErrCanceled == "context.Canceled"
ErrMismatch == "bcrypt.ErrMismatchedHashAndPassword"
ErrHash == "bcrypt.GenerateFromPassword failure"
ErrSigning == "jwt signing failure"
NoErr == "nil"

Nil == [op |-> "", err |-> NoErr]
Wrap(op, err) == [op |-> op, err |-> err]
Is(e, target) == e.err = target

\* The caller-visible error kinds
Kind(e) ==
    IF e = Nil THEN "OK"
    ELSE IF Is(e, ErrInvalidCredentials) THEN "InvalidCredentials"
    ELSE IF Is(e, ErrUserAlreadyExists) THEN "DuplicateUser"
    ELSE "Internal"

----------------------------------------------------------------------------
(* Records *)

NoHash == [salt |-> 0, sum |-> 0]
NoUser == [id |-> 0, email |-> 0, passHash |-> NoHash]
NoApp == [id |-> 0, secret |-> 0]
EmptyToken == [uid |-> 0, email |-> 0, app_id |-> 0, exp |-> 0, key |-> 0]

\* the app table: read-only to the service
apps == {[id |-> i, secret |-> 0 - i] : i \in 1..MaxApps}

\* one collaborator or library call of a handler: the function, whether the
\* caller's ctx was handed to it, and the error it answered
Call(fn, ctx, err) == [fn |-> fn, ctx |-> ctx, err |-> err]

NoRet == [token |-> EmptyToken, uid |-> 0, isAdmin |-> FALSE, err |-> Nil]
\* no call has completed since the caller took the last result
NoCall == [op |-> "", email |-> 0, password |-> 0, appID |-> 0, userID |-> 0,
           cancelAt |-> 0, calls |-> <<>>, ret |-> NoRet, at |-> 0,
           answered |-> FALSE, before |-> {}]

\* a RegisterNewUser call that has not started
NoReg == [pc |-> "start", email |-> 0, password |-> 0, passHash |-> NoHash,
          calls |-> <<>>, ret |-> NoRet, began |-> 0]

\* ctx is cancelled before or during the handler's step k (cancelAt = 0: never)
CtxDone(cancelAt, k) == cancelAt # 0 /\ cancelAt <= k

----------------------------------------------------------------------------
(* bcrypt *)

\* the salted digest: injective in (salt, password), never the password itself
Digest(salt, password) == salt * (MaxPasswords + 1) + password + MaxPasswords

\* bcrypt.GenerateFromPassword: a fresh random salt, or an error
GenerateFromPassword(password) ==
    {[passHash |-> [salt |-> s, sum |-> Digest(s, password)], err |-> NoErr] : s \in Salts}
    \cup {[passHash |-> NoHash, err |-> ErrHash]}

\* bcrypt.CompareHashAndPassword
CompareHashAndPassword(passHash, password) ==
    IF passHash.sum = Digest(passHash.salt, password) THEN NoErr ELSE ErrMismatch

----------------------------------------------------------------------------
(* Collaborators: the answers each call can give in the current state *)

\* UserProvider.User
User(ctxDone, email) ==
    IF ctxDone THEN {[user |-> NoUser, err |-> ErrCanceled]}
    ELSE {[user |-> NoUser, err |-> ErrStorage]}
         \cup (IF \E u \in users : u.email = email
               THEN {[user |-> u, err |-> NoErr] : u \in {v \in users : v.email = email}}
               ELSE {[user |-> NoUser, err |-> ErrUserNotFound]})

\* AppProvider.App
App(ctxDone, appID) ==
    IF ctxDone THEN {[app |-> NoApp, err |-> ErrCanceled]}
    ELSE {[app |-> NoApp, err |-> ErrStorage]}
         \cup (IF \E a \in apps : a.id = appID
               THEN {[app |-> a, err |-> NoErr] : a \in {b \in apps : b.id = appID}}
               ELSE {[app |-> NoApp, err |-> ErrAppNotFound]})

\* UserSaver.SaveUser: the uniqueness check and the insert are one atomic step
SaveUser(ctxDone, email, passHash) ==
    IF ctxDone THEN {[uid |-> 0, err |-> ErrCanceled, users |-> users]}
    ELSE {[uid |-> 0, err |-> ErrStorage, users |-> users]}
         \cup (IF \E u \in users : u.email = email
               THEN {[uid |-> 0, err |-> ErrUserAlreadyExists, users |-> users]}
               ELSE {[uid |-> Cardinality(users) + 1, err |-> NoErr,
                      users |-> users \cup {[id |-> Cardinality(users) + 1,
                                             email |-> email, passHash |-> passHash]}]})

\* UserProvider.IsAdmin
IsAdminQuery(ctxDone, userID) ==
    IF ctxDone THEN {[isAdmin |-> FALSE, err |-> ErrCanceled]}
    ELSE {[isAdmin |-> b, err |-> NoErr] : b \in BOOLEAN}
         \cup {[isAdmin |-> b, err |-> ErrStorage] : b \in BOOLEAN}

\* jwt.NewToken: claims uid, email, app_id, exp = time.Now() + duration,
\* signed with the app's secret; or a signing error
NewToken(user, app, duration) ==
    {[token |-> [uid |-> user.id, email |-> user.email, app_id |-> app.id,
                 exp |-> t + duration, key |-> app.secret],
      at |-> t, err |-> NoErr] : t \in Times}
    \cup {[token |-> EmptyToken, at |-> 0, err |-> ErrSigning]}

----------------------------------------------------------------------------
(* Auth.Login *)

\* a Login that hands the lookup error on instead of collapsing it
LoginUserErr_Propagate(err) == Wrap("auth.Login", err)

\* the error returned when the user lookup failed
LoginUserErr(err) == Wrap("auth.Login", ErrInvalidCredentials)

\* a Login that hands the bcrypt error on instead of collapsing it
LoginPasswordErr_Propagate(err) == Wrap("auth.Login", err)

\* the error returned when the password does not match the hash
LoginPasswordErr(err) == Wrap("auth.Login", ErrInvalidCredentials)

\* a Login that hands the app lookup error on instead of collapsing it
LoginAppErr_Propagate(err) == Wrap("auth.Login", err)

\* the error returned when the app lookup failed
LoginAppErr(err) == Wrap("auth.Login", ErrInvalidCredentials)

\* the error returned when the token could not be created
LoginTokenErr(err) == Wrap("auth.Login", err)

\* a Login that drops the configured lifetime
LoginNewToken_ZeroTTL(user, app) == NewToken(user, app, 0)

\* the token constructor call
LoginNewToken(user, app) == NewToken(user, app, tokenTTL)

LoginRet(token, err, calls, at) ==
    [ret |-> [token |-> token, uid |-> 0, isAdmin |-> FALSE, err |-> err],
     calls |-> calls, at |-> at]

\* a Login that looks the app up before it compares the password
LoginRun_AppFirst(password, ru, ra, rt) ==
    LET c1 == <<Call("User", TRUE, ru.err)>>
        cmp == CompareHashAndPassword(ru.user.passHash, password)
        c2 == Append(c1, Call("App", TRUE, ra.err))
        c3 == Append(c2, Call("CompareHashAndPassword", FALSE, cmp))
        c4 == Append(c3, Call("NewToken", FALSE, rt.err))
    IN  IF ru.err # NoErr THEN LoginRet(EmptyToken, LoginUserErr(ru.err), c1, 0)
        ELSE IF ra.err # NoErr THEN LoginRet(EmptyToken, LoginAppErr(ra.err), c2, 0)
        ELSE IF cmp # NoErr THEN LoginRet(EmptyToken, LoginPasswordErr(cmp), c3, 0)
        ELSE IF rt.err # NoErr THEN LoginRet(EmptyToken, LoginTokenErr(rt.err), c4, 0)
        ELSE LoginRet(rt.token, Nil, c4, rt.at)

\* the body of Login, given what each call it makes answers
LoginRun(password, ru, ra, rt) ==
    LET c1 == <<Call("User", TRUE, ru.err)>>
        cmp == CompareHashAndPassword(ru.user.passHash, password)
        c2 == Append(c1, Call("CompareHashAndPassword", FALSE, cmp))
        c3 == Append(c2, Call("App", TRUE, ra.err))
        c4 == Append(c3, Call("NewToken", FALSE, rt.err))
    IN  IF ru.err # NoErr THEN LoginRet(EmptyToken, LoginUserErr(ru.err), c1, 0)
        ELSE IF cmp # NoErr THEN LoginRet(EmptyToken, LoginPasswordErr(cmp), c2, 0)
        ELSE IF ra.err # NoErr THEN LoginRet(EmptyToken, LoginAppErr(ra.err), c3, 0)
        ELSE IF rt.err # NoErr THEN LoginRet(EmptyToken, LoginTokenErr(rt.err), c4, 0)
        ELSE LoginRet(rt.token, Nil, c4, rt.at)

\* what the caller can see of a Login result
Visible(ret) == [kind |-> Kind(ret.err), token |-> ret.token]

Registered(email) == \E u \in users : u.email = email
WrongPassword(email, password) ==
    \E u \in users : u.email = email /\ CompareHashAndPassword(u.passHash, password) # NoErr

\* the environment fixes what each call would answer; the handler sees the
\* answers of the calls it makes
Login(email, password, appID) ==
    /\ last = NoCall
    /\ \E cancelAt \in 0..4 :
       \E ru \in User(CtxDone(cancelAt, 1), email) :
       \E ra \in App(CtxDone(cancelAt, 3), appID) :
       \E rt \in LoginNewToken(ru.user, ra.app) :
        LET r == LoginRun(password, ru, ra, rt) IN
        /\ last' = [op |-> "Login", email |-> email, password |-> password,
                    appID |-> appID, userID |-> 0, cancelAt |-> cancelAt,
                    calls |-> r.calls, ret |-> r.ret, at |-> r.at,
                    answered |-> FALSE, before |-> users]
        /\ UNCHANGED <<users, regReturned, reg>>

----------------------------------------------------------------------------
(* Auth.RegisterNewUser *)

\* the error returned when hashing failed
RegisterHashErr(err) == Wrap("auth.RegisterNewUser", err)

\* a RegisterNewUser that collapses the SaveUser error the way Login does
RegisterSaveErr_Collapse(err) == Wrap("auth.RegisterNewUser", ErrInvalidCredentials)

\* the error returned when SaveUser failed
RegisterSaveErr(err) == Wrap("auth.RegisterNewUser", err)

\* a RegisterNewUser that returns the zero ID
RegisterReturn_Zero(id) == 0

\* the value returned on success
RegisterReturn(id) == id

RegisterRet(uid, err, calls, saved) ==
    [ret |-> [token |-> EmptyToken, uid |-> uid, isAdmin |-> FALSE, err |-> err],
     calls |-> calls, users |-> saved]

\* the body of RegisterNewUser, given what each call it makes answers
RegisterRun(rh, rs) ==
    LET c1 == <<Call("GenerateFromPassword", FALSE, rh.err)>>
        c2 == Append(c1, Call("SaveUser", TRUE, rs.err))
    IN  IF rh.err # NoErr THEN RegisterRet(0, RegisterHashErr(rh.err), c1, users)
        ELSE IF rs.err # NoErr THEN RegisterRet(0, RegisterSaveErr(rs.err), c2, rs.users)
        ELSE RegisterRet(RegisterReturn(rs.uid), Nil, c2, rs.users)

RegisterNewUser(email, password) ==
    /\ last = NoCall
    /\ \E cancelAt \in 0..2 :
       \E rh \in GenerateFromPassword(password) :
       \E rs \in SaveUser(CtxDone(cancelAt, 2), email, rh.passHash) :
        LET r == RegisterRun(rh, rs) IN
        /\ users' = r.users
        /\ last' = [op |-> "RegisterNewUser", email |-> email, password |-> password,
                    appID |-> 0, userID |-> 0, cancelAt |-> cancelAt,
                    calls |-> r.calls, ret |-> r.ret, at |-> 0,
                    answered |-> FALSE, before |-> users]
        /\ regReturned' = IF r.ret.err = Nil
                          THEN [regReturned EXCEPT ![email] =
                                   Append(@, [uid |-> r.ret.uid, password |-> password])]
                          ELSE regReturned
        /\ UNCHANGED reg

\* Concurrent RegisterNewUser calls.  A call runs in two steps, the hashing
\* (local to the call) and SaveUser (atomic in the user table); the steps of
\* different callers interleave freely.

\* RegisterNewUser up to and including the hashing
RegisterNewUserHash(c, email, password) ==
    /\ reg[c].pc = "start"
    /\ \E rh \in GenerateFromPassword(password) :
          LET r == RegisterRun(rh, [uid |-> 0, err |-> NoErr, users |-> users]) IN
          reg' = [reg EXCEPT ![c] =
                    IF rh.err # NoErr
                    THEN [pc |-> "done", email |-> email, password |-> password,
                          passHash |-> NoHash, calls |-> r.calls, ret |-> r.ret,
                          began |-> Cardinality(users)]
                    ELSE [pc |-> "hashed", email |-> email, password |-> password,
                          passHash |-> rh.passHash, calls |-> <<>>, ret |-> NoRet,
                          began |-> Cardinality(users)]]
    /\ UNCHANGED <<users, last, regReturned>>

\* RegisterNewUser from the SaveUser call to its return
RegisterNewUserSave(c) ==
    /\ reg[c].pc = "hashed"
    /\ \E ctxDone \in BOOLEAN :
       \E rs \in SaveUser(ctxDone, reg[c].email, reg[c].passHash) :
          LET r == RegisterRun([passHash |-> reg[c].passHash, err |-> NoErr], rs) IN
          /\ users' = r.users
          /\ reg' = [reg EXCEPT ![c] =
                       [pc |-> "done", email |-> reg[c].email, password |-> reg[c].password,
                        passHash |-> NoHash, calls |-> r.calls, ret |-> r.ret,
                        began |-> reg[c].began]]
          /\ regReturned' = IF r.ret.err = Nil
                            THEN [regReturned EXCEPT ![reg[c].email] =
                                     Append(@, [uid |-> r.ret.uid,
                                                password |-> reg[c].password])]
                            ELSE regReturned
    /\ UNCHANGED last

----------------------------------------------------------------------------
(* Auth.IsAdmin *)

\* the error returned when the admin check failed
IsAdminErr(err) == Wrap("auth.IsAdmin", err)

\* an IsAdmin that inverts the answer
IsAdminReturn_Negated(isAdmin) == ~isAdmin

\* the value returned on success
IsAdminReturn(isAdmin) == isAdmin

IsAdminRet(isAdmin, err, calls) ==
    [ret |-> [token |-> EmptyToken, uid |-> 0, isAdmin |-> isAdmin, err |-> err],
     calls |-> calls]

\* the body of IsAdmin, given what the admin check answers
IsAdminRun(ri) ==
    LET c1 == <<Call("IsAdmin", TRUE, ri.err)>>
    IN  IF ri.err # NoErr THEN IsAdminRet(FALSE, IsAdminErr(ri.err), c1)
        ELSE IsAdminRet(IsAdminReturn(ri.isAdmin), Nil, c1)

IsAdmin(userID) ==
    /\ last = NoCall
    /\ \E cancelAt \in 0..1 :
       \E ri \in IsAdminQuery(CtxDone(cancelAt, 1), userID) :
        LET r == IsAdminRun(ri) IN
        /\ last' = [op |-> "IsAdmin", email |-> 0, password |-> 0,
                    appID |-> 0, userID |-> userID, cancelAt |-> cancelAt,
                    calls |-> r.calls, ret |-> r.ret, at |-> 0,
                    answered |-> ri.isAdmin, before |-> users]
        /\ UNCHANGED <<users, regReturned, reg>>

----------------------------------------------------------------------------
(* The service *)

\* the caller takes the result; the next call can start
Return ==
    /\ last # NoCall
    /\ last' = NoCall
    /\ UNCHANGED <<users, regReturned, reg>>

Init ==
    /\ users = {}
    /\ last = NoCall
    /\ regReturned = [e \in Emails |-> <<>>]
    /\ reg = [c \in Callers |-> NoReg]

Next ==
    \/ \E email \in Emails, password \in Passwords, appID \in AppIDs :
          Login(email, password, appID)
    \/ \E email \in Emails, password \in Passwords :
          RegisterNewUser(email, password)
    \/ \E userID \in UserIDs : IsAdmin(userID)
    \/ Return

Spec == Init /\ [][Next]_vars

\* NumCallers concurrent callers, each making one RegisterNewUser call
NextRegister ==
    \/ \E c \in Callers, email \in Emails, password \in Passwords :
          RegisterNewUserHash(c, email, password)
    \/ \E c \in Callers : RegisterNewUserSave(c)

SpecRegister == Init /\ [][NextRegister]_vars

----------------------------------------------------------------------------
(* Properties *)

InvalidCredentialsResult == [kind |-> "InvalidCredentials", token |-> EmptyToken]

StoredUser(email) == CHOOSE u \in users : u.email = email
RightPassword(email, password) ==
    \E u \in users : u.email = email /\ CompareHashAndPassword(u.passHash, password) = NoErr
AppExists(appID) == \E a \in apps : a.id = appID

Made(fn) == \E i \in DOMAIN last.calls : last.calls[i].fn = fn
Answered(fn, err) ==
    \E i \in DOMAIN last.calls : last.calls[i].fn = fn /\ last.calls[i].err = err
Failed(fn) ==
    \E i \in DOMAIN last.calls : last.calls[i].fn = fn /\ last.calls[i].err # NoErr
\* no call of the handler was answered by a backend failure, a cancelled
\* context, a hashing failure or a signing failure
NoFailure ==
    \A i \in DOMAIN last.calls :
        last.calls[i].err \notin {ErrStorage, ErrCanceled, ErrHash, ErrSigning}

LoginOrder == <<"User", "CompareHashAndPassword", "App", "NewToken">>

\* C1: a Login of a stored user with the password of the stored hash and a
\* stored app, whose token was signed without error, returns no error and a
\* token with that user's ID and email, that appID, and expiration = the time
\* of issue + tokenTTL.
C1_LoginBindsUserAppAndTTL ==
    (/\ last.op = "Login"
     /\ RightPassword(last.email, last.password)
     /\ AppExists(last.appID)
     /\ Answered("NewToken", NoErr))
    => (/\ last.ret.err = Nil
        /\ last.ret.token.uid = StoredUser(last.email).id
        /\ last.ret.token.email = last.email
        /\ last.ret.token.app_id = last.appID
        /\ last.ret.token.exp = last.at + tokenTTL)

C1_Witness ==
    /\ last.op = "Login"
    /\ RightPassword(last.email, last.password)
    /\ AppExists(last.appID)
    /\ Answered("NewToken", NoErr)
    /\ last.ret.token # EmptyToken
    /\ last.at > 0

\* C2: a Login whose user lookup failed with a storage failure other than
\* ErrUserNotFound returns an error of the Internal kind, not
\* InvalidCredentials.
C2_StorageFailureIsInternal ==
    (last.op = "Login" /\ Answered("User", ErrStorage))
    => (Kind(last.ret.err) = "Internal" /\ Kind(last.ret.err) # "InvalidCredentials")

RegDone(c) == reg[c].pc = "done"
RegReturnedID(c) == RegDone(c) /\ reg[c].ret.err = Nil
\* no call of caller c was answered by a backend failure, a cancelled
\* context or a hashing failure
RegNoFailure(c) ==
    \A i \in DOMAIN reg[c].calls :
        reg[c].calls[i].err \notin {ErrStorage, ErrCanceled, ErrHash}
\* the user table holds what the calls that returned an ID stored, and
\* nothing else: a call that returned no ID left no trace in it
StoredByReturnedCalls ==
    /\ \A u \in users : \E c \in Callers :
          RegReturnedID(c) /\ reg[c].ret.uid = u.id /\ reg[c].email = u.email
    /\ Cardinality(users) = Cardinality({c \in Callers : RegReturnedID(c)})

C7_LoginAfterRegisterSucceeds ==
    (/\ last.op = "Login"
     /\ regReturned[last.email] # <<>>
     /\ AppExists(last.appID)
     /\ NoFailure)
    => \A i \in DOMAIN regReturned[last.email] :
          regReturned[last.email][i].password = last.password
          => (/\ last.ret.err = Nil
              /\ last.ret.token # EmptyToken
              /\ last.ret.token.uid = regReturned[last.email][i].uid)

C7_Witness ==
    /\ last.op = "Login"
    /\ Len(regReturned[last.email]) = 1
    /\ regReturned[last.email][1].password = last.password
    /\ AppExists(last.appID)
    /\ NoFailure
    /\ last.ret.err = Nil

\* C8: a Login whose context is cancelled before or during one of its steps
\* returns the empty token and a cancellation-flavoured Internal error, not
\* InvalidCredentials, and every collaborator call it makes is handed the
\* caller's context.
C8_CancelledLoginAborts ==
    (last.op = "Login" /\ last.cancelAt # 0)
    => (/\ last.ret.token = EmptyToken
        /\ Kind(last.ret.err) = "Internal"
        /\ Is(last.ret.err, ErrCanceled)
        /\ \A i \in DOMAIN last.calls :
              last.calls[i].fn \in {"User", "App", "NewToken"} => last.calls[i].ctx)

\* C9: IsAdmin makes the admin check and nothing else; when the check
\* answers, IsAdmin returns that boolean and no error; when it fails, IsAdmin
\* returns false and an Internal error; the user table is as it was.
C9_IsAdminReflectsTheCheck ==
    (last.op = "IsAdmin")
    => (/\ Len(last.calls) = 1
        /\ last.calls[1].fn = "IsAdmin"
        /\ last.calls[1].err = NoErr
              => (last.ret.err = Nil /\ last.ret.isAdmin = last.answered)
        /\ last.calls[1].err # NoErr
              => (last.ret.isAdmin = FALSE /\ Kind(last.ret.err) = "Internal")
        /\ users = last.before)

C9_Witness ==
    /\ last.op = "IsAdmin"
    /\ last.calls[1].err = NoErr
    /\ last.answered
    /\ last.ret.isAdmin
    /\ users # {}

\* C10: a Login makes its calls in the order user lookup, password
\* comparison, app lookup, token signing, each at most once, and stops at the
\* first that fails: only its last call can have failed, it returns no error
\* exactly when all four were made and none failed, and a signing failure
\* gives an Internal error and the empty token.
C10_LoginStepsInOrderStopAtFirstFailure ==
    (last.op = "Login")
    => LET n == Len(last.calls) IN
       /\ n \in 1..4
       /\ \A i \in 1..n : last.calls[i].fn = LoginOrder[i]
       /\ \A i \in 1..(n - 1) : last.calls[i].err = NoErr
       /\ n < 4 => last.calls[n].err # NoErr
       /\ last.ret.err = Nil <=> (n = 4 /\ last.calls[4].err = NoErr)
       /\ last.ret.err # Nil => last.ret.token = EmptyToken
       /\ Answered("NewToken", ErrSigning)
             => (Kind(last.ret.err) = "Internal" /\ last.ret.token = EmptyToken)

C10_Witness ==
    /\ last.op = "Login"
    /\ Len(last.calls) = 4
    /\ Answered("NewToken", ErrSigning)

====
